---- MODULE Spec2Model ----
(***************************************************************************)
(* Model of shared/src/lib.rs of file_yeet: read_stream, the helper that   *)
(* reads a positive number of bytes from a TcpStream, together with the    *)
(* connected stream it reads from (peer, network, receive queue).          *)
(***************************************************************************)
EXTENDS Integers, Sequences, FiniteSets, TLC

\* ------------------------------------------------------------------ bounds

\* Bytes the peer writes over the life of the connection.
MaxBytes == 2
\* Largest buffer a caller passes to read_stream (buf.len()).
MaxCap == 2
\* Would-block answers the platform gives within one call of read_stream.
MaxWouldBlock == 2
\* Times an Address is formatted, and times it is resolved.
MaxAddrCalls == 2

\* Byte values the peer may write.
Bytes == {1, 2}

\* std::io::ErrorKind values a read can fail with, other than WouldBlock.
FatalKinds == {"ConnectionReset", "Interrupted"}

Min(a, b) == IF a < b THEN a ELSE b

\* ----------------------------------------------------------------- values

\* io::Result<usize> of stream.read(buf).
ReadOk(n) == [kind |-> "Ok", n |-> n, err |-> "None"]
ReadErr(k) == [kind |-> "Err", n |-> 0, err |-> k]
NoRead == [kind |-> "None", n |-> 0, err |-> "None"]

\* Result<NonZeroUsize, ReadStreamError> of read_stream.
Ok(n) == [tag |-> "Ok", n |-> n, err |-> "None"]
ConnectionClosed == [tag |-> "ConnectionClosed", n |-> 0, err |-> "None"]
IoError(k) == [tag |-> "IoError", n |-> 0, err |-> k]
Pending == [tag |-> "Pending", n |-> 0, err |-> "None"]

\* What one iteration of the loop does with the read's answer.
Return(res) == [op |-> "return", res |-> res]
Continue == [op |-> "continue", res |-> Pending]

VARIABLES
    nonblocking,  \* the TcpStream is in non-blocking mode
    peerOpen,     \* the peer has not closed its sending side
    sent,         \* every byte the peer has written, in order
    wire,         \* bytes written by the peer, not yet in the receive queue
    rcvbuf,       \* bytes in the socket's receive queue, unread
    finRcvd,      \* the peer's close has reached the socket (end of input)
    pendingErr,   \* error condition the next read fails with, or "None"
    pc,           \* "idle" | "reading" (inside read_stream's loop) | "done"
    buf,          \* the caller's buffer, buf: &mut [u8]
    attempts,     \* stream.read calls made by the current call
    wouldBlocks,  \* how many of them answered WouldBlock
    lastRead,     \* the answer of the latest stream.read of the current call
    result,       \* what the current call returned, Pending before
    closedSeen,   \* some call on this stream has returned ConnectionClosed
    received,     \* the buffer prefixes returned by successful calls, in order
    addr,         \* the Address { ip, port }
    fmtOut,       \* the strings its formatting has produced, in order
    resolveOut    \* the results of to_socket_addrs on it, in order

vars == <<nonblocking, peerOpen, sent, wire, rcvbuf, finRcvd, pendingErr,
          pc, buf, attempts, wouldBlocks, lastRead, result, closedSeen, received,
          addr, fmtOut, resolveOut>>

streamVars == <<nonblocking, peerOpen, sent, wire, rcvbuf, finRcvd, pendingErr>>
callVars == <<pc, buf, attempts, wouldBlocks, lastRead, result, closedSeen, received>>
addrVars == <<addr, fmtOut, resolveOut>>

\* ---------------------------------------------------------------- Address
\* pub const DEFAULT_PORT: u16 = 7828.
DEFAULT_PORT == 7828

\* IpAddr::V4 of four octets, IpAddr::V6 of eight 16-bit segments.
V4(a, b, c, d) == [v |-> "V4", parts |-> <<a, b, c, d>>]
V6(s) == [v |-> "V6", parts |-> s]

\* pub struct Address { pub ip: IpAddr, pub port: u16 }.
Address(ip, port) == [ip |-> ip, port |-> port]

\* pub const DEFAULT_IPV4: &str = "127.0.0.1", with the default port.
DefaultAddress == Address(V4(127, 0, 0, 1), DEFAULT_PORT)

\* The IP addresses and ports the Address operations are run on.
Ips ==
    { V4(192, 0, 2, 1), V4(127, 0, 0, 1), V4(0, 0, 0, 0), V4(255, 255, 255, 255),
      V6(<<0, 0, 0, 0, 0, 0, 0, 1>>),
      V6(<<8193, 3512, 0, 0, 0, 0, 0, 1>>),
      V6(<<65152, 0, 0, 1, 0, 0, 0, 1>>),
      V6(<<0, 0, 0, 0, 0, 65535, 49152, 513>>) }
Ports == {0, 80, DEFAULT_PORT, 65535}
Addresses == {Address(ip, port) : ip \in Ips, port \in Ports}

\* Text is a sequence of characters.
Digits == <<"0", "1", "2", "3", "4", "5", "6", "7", "8", "9",
            "a", "b", "c", "d", "e", "f">>

\* Display of an unsigned integer in the given radix, no leading zeros.
RECURSIVE Radix(_, _)
Radix(n, base) ==
    IF n < base
    THEN <<Digits[n + 1]>>
    ELSE Radix(n \div base, base) \o <<Digits[(n % base) + 1]>>

Decimal(n) == Radix(n, 10)
LowerHex(n) == Radix(n, 16)

\* The texts of a sequence, separated by sep.
RECURSIVE Join(_, _)
Join(texts, sep) ==
    IF texts = <<>> THEN <<>>
    ELSE IF Len(texts) = 1 THEN texts[1]
    ELSE texts[1] \o sep \o Join(Tail(texts), sep)

\* Display of an Ipv4Addr: the octets in decimal, separated by dots.
Ipv4Text(o) == Join([i \in 1..4 |-> Decimal(o[i])], <<".">>)

\* Length of the run of zero segments of s that starts at i.
RECURSIVE ZeroRun(_, _)
ZeroRun(s, i) == IF i > Len(s) \/ s[i] # 0 THEN 0 ELSE 1 + ZeroRun(s, i + 1)

\* Display of an Ipv6Addr: "::ffff:a.b.c.d" for an IPv4-mapped address, else
\* the segments in hexadecimal separated by colons, the first longest run of
\* two or more zero segments written "::".
Ipv6Text(s) ==
    IF SubSeq(s, 1, 6) = <<0, 0, 0, 0, 0, 65535>>
    THEN <<":", ":", "f", "f", "f", "f", ":">> \o
         Ipv4Text(<<s[7] \div 256, s[7] % 256, s[8] \div 256, s[8] % 256>>)
    ELSE LET longest == CHOOSE n \in 0..8 :
                            /\ \E i \in 1..8 : ZeroRun(s, i) = n
                            /\ \A i \in 1..8 : ZeroRun(s, i) <= n
             start == CHOOSE i \in 1..8 :
                            /\ ZeroRun(s, i) = longest
                            /\ \A j \in 1..(i - 1) : ZeroRun(s, j) < longest
             hex(lo, hi) == Join([i \in 1..(hi - lo + 1) |-> LowerHex(s[lo + i - 1])], <<":">>)
         IN IF longest > 1
            THEN hex(1, start - 1) \o <<":", ":">> \o hex(start + longest, 8)
            ELSE hex(1, 8)

\* Display of an IpAddr.
IpText(ip) == IF ip.v = "V4" THEN Ipv4Text(ip.parts) ELSE Ipv6Text(ip.parts)

\* std::net::SocketAddr: SocketAddrV4::new(ip, port) or
\* SocketAddrV6::new(ip, port, 0, 0).
SocketAddr(ip, port) == [ip |-> ip, port |-> port, flowinfo |-> 0, scope_id |-> 0]

\* Formatting that brackets an IPv6 address, as Display of SocketAddr does.
fmtLikeSocketAddr(a) ==
    IF a.ip.v = "V6"
    THEN <<"[">> \o IpText(a.ip) \o <<"]", ":">> \o Decimal(a.port)
    ELSE IpText(a.ip) \o <<":">> \o Decimal(a.port)

\* Formatting that keeps state between calls: the separator is written by the
\* first call only.
fmtFirstCallOnly(a) ==
    IF fmtOut = <<>>
    THEN IpText(a.ip) \o <<":">> \o Decimal(a.port)
    ELSE IpText(a.ip) \o Decimal(a.port)

\* impl Display for Address: write!(f, "{ip}:{port}").
fmt(a) == IpText(a.ip) \o <<":">> \o Decimal(a.port)

\* Resolution that pairs the IP with the default port.
to_socket_addrsDefaultPort(a) ==
    IF a.ip.v = "V4"
    THEN <<SocketAddr(a.ip, DEFAULT_PORT)>>
    ELSE <<SocketAddr(a.ip, DEFAULT_PORT)>>

\* impl ToSocketAddrs for Address: the addresses of the Ok(option::IntoIter)
\* that (ip, port).to_socket_addrs() returns, for either IP version.
to_socket_addrs(a) ==
    IF a.ip.v = "V4"
    THEN <<SocketAddr(a.ip, a.port)>>
    ELSE <<SocketAddr(a.ip, a.port)>>

\* A caller formats the Address (address.to_string()).
Fmt ==
    /\ Len(fmtOut) < MaxAddrCalls
    /\ fmtOut' = Append(fmtOut, fmt(addr))
    /\ UNCHANGED <<addr, resolveOut>>
    /\ UNCHANGED <<streamVars, callVars>>

\* A caller resolves the Address (address.to_socket_addrs()).
Resolve ==
    /\ Len(resolveOut) < MaxAddrCalls
    /\ resolveOut' = Append(resolveOut, to_socket_addrs(addr))
    /\ UNCHANGED <<addr, fmtOut>>
    /\ UNCHANGED <<streamVars, callVars>>

\* ------------------------------------------------------------ read_stream

\* The match with the WouldBlock arm missing: every error is returned.
ClassifySurfaceWouldBlock(r) ==
    IF r.kind = "Ok"
    THEN IF r.n # 0 THEN Return(Ok(r.n)) ELSE Return(ConnectionClosed)
    ELSE Return(IoError(r.err))

\* The match without the NonZeroUsize check: any Ok(size) is returned.
ClassifyZeroIsSuccess(r) ==
    IF r.kind = "Ok"
    THEN Return(Ok(r.n))
    ELSE IF r.err = "WouldBlock" THEN Continue ELSE Return(IoError(r.err))

\* The match with Interrupted retried like WouldBlock.
ClassifyRetryInterrupted(r) ==
    IF r.kind = "Ok"
    THEN IF r.n # 0 THEN Return(Ok(r.n)) ELSE Return(ConnectionClosed)
    ELSE IF r.err \in {"WouldBlock", "Interrupted"}
         THEN Continue
         ELSE Return(IoError(r.err))

\* The match with a zero-byte read retried instead of returned.
ClassifyRetryZero(r) ==
    IF r.kind = "Ok"
    THEN IF r.n # 0 THEN Return(Ok(r.n)) ELSE Continue
    ELSE IF r.err = "WouldBlock" THEN Continue ELSE Return(IoError(r.err))

\* The match with WouldBlock handled like a zero-byte read.
ClassifyWouldBlockAsClosed(r) ==
    IF r.kind = "Ok"
    THEN IF r.n # 0 THEN Return(Ok(r.n)) ELSE Return(ConnectionClosed)
    ELSE IF r.err = "WouldBlock"
         THEN Return(ConnectionClosed)
         ELSE Return(IoError(r.err))

\* The match with every error retried.
ClassifyRetryAnyError(r) ==
    IF r.kind = "Ok"
    THEN IF r.n # 0 THEN Return(Ok(r.n)) ELSE Return(ConnectionClosed)
    ELSE Continue

\* The match with the zero test inverted.
ClassifyInvertedZeroTest(r) ==
    IF r.kind = "Ok"
    THEN IF r.n = 0 THEN Return(Ok(r.n)) ELSE Return(ConnectionClosed)
    ELSE IF r.err = "WouldBlock" THEN Continue ELSE Return(IoError(r.err))

\* The match with end of input reported as an I/O error.
ClassifyEofAsError(r) ==
    IF r.kind = "Ok"
    THEN IF r.n # 0 THEN Return(Ok(r.n)) ELSE Return(IoError("UnexpectedEof"))
    ELSE IF r.err = "WouldBlock" THEN Continue ELSE Return(IoError(r.err))

\* The match with a positive count retried, to read until the stream ends.
ClassifyReadUntilClosed(r) ==
    IF r.kind = "Ok"
    THEN IF r.n # 0 THEN Continue ELSE Return(ConnectionClosed)
    ELSE IF r.err = "WouldBlock" THEN Continue ELSE Return(IoError(r.err))

\* The match with the closed state remembered from earlier calls.
ClassifyRemembersClosed(r) ==
    IF closedSeen THEN Return(ConnectionClosed)
    ELSE IF r.kind = "Ok"
    THEN IF r.n # 0 THEN Return(Ok(r.n)) ELSE Return(ConnectionClosed)
    ELSE IF r.err = "WouldBlock" THEN Continue ELSE Return(IoError(r.err))

\* The match on stream.read(buf) in read_stream's loop.
Classify(r) ==
    IF r.kind = "Ok"
    THEN IF r.n # 0
         THEN Return(Ok(r.n))
         ELSE Return(ConnectionClosed)
    ELSE IF r.err = "WouldBlock"
         THEN Continue
         ELSE Return(IoError(r.err))

\* The answers stream.read(buf) can give for a buffer of cap bytes, in the
\* stream's current state: a pending error; else as many queued bytes as the
\* buffer takes (none, Ok(0), for an empty buffer); else Ok(0) at end of
\* input; else WouldBlock on a non-blocking socket.  A blocking socket with
\* nothing to report gives no answer (the read blocks).
PlatformRead(cap) ==
    IF pendingErr # "None" THEN {ReadErr(pendingErr)}
    ELSE IF rcvbuf # <<>> THEN {ReadOk(Min(cap, Len(rcvbuf)))}
    ELSE IF finRcvd THEN {ReadOk(0)}
    ELSE IF nonblocking THEN {ReadErr("WouldBlock")}
    ELSE {}

\* The buffer after a read that stored the first n unread bytes in its prefix.
Filled(b, q, n) == [i \in 1..Len(b) |-> IF i <= n THEN q[i] ELSE b[i]]

\* The caller invokes read_stream(stream, buf) with a buffer of cap bytes.
Call(cap) ==
    /\ pc \in {"idle", "done"}
    /\ pc' = "reading"
    /\ buf' = [i \in 1..cap |-> 0]
    /\ attempts' = 0
    /\ wouldBlocks' = 0
    /\ lastRead' = NoRead
    /\ result' = Pending
    /\ UNCHANGED <<closedSeen, received>>
    /\ UNCHANGED streamVars
    /\ UNCHANGED addrVars

\* The loop body with stream.peek in place of stream.read: the bytes stay in
\* the receive queue.
ReadStepPeek ==
    /\ pc = "reading"
    /\ \E r \in PlatformRead(Len(buf)) :
        /\ r.err = "WouldBlock" => wouldBlocks < MaxWouldBlock
        /\ attempts' = attempts + 1
        /\ wouldBlocks' = IF r.err = "WouldBlock" THEN wouldBlocks + 1 ELSE wouldBlocks
        /\ lastRead' = r
        /\ buf' = Filled(buf, rcvbuf, r.n)
        /\ rcvbuf' = rcvbuf
        /\ pendingErr' = IF r.kind = "Err" /\ r.err # "WouldBlock" THEN "None" ELSE pendingErr
        /\ LET d == Classify(r) IN
            IF d.op = "continue"
            THEN /\ pc' = "reading"
                 /\ UNCHANGED <<result, closedSeen, received>>
            ELSE /\ pc' = "done"
                 /\ result' = d.res
                 /\ closedSeen' = (closedSeen \/ d.res.tag = "ConnectionClosed")
                 /\ received' = IF d.res.tag = "Ok"
                                THEN received \o SubSeq(buf', 1, Min(d.res.n, Len(buf')))
                                ELSE received
    /\ UNCHANGED <<nonblocking, peerOpen, sent, wire, finRcvd>>
    /\ UNCHANGED addrVars

\* One iteration of read_stream's loop: one stream.read and the match on it.
ReadStep ==
    /\ pc = "reading"
    /\ \E r \in PlatformRead(Len(buf)) :
        /\ r.err = "WouldBlock" => wouldBlocks < MaxWouldBlock
        /\ attempts' = attempts + 1
        /\ wouldBlocks' = IF r.err = "WouldBlock" THEN wouldBlocks + 1 ELSE wouldBlocks
        /\ lastRead' = r
        /\ buf' = Filled(buf, rcvbuf, r.n)
        /\ rcvbuf' = SubSeq(rcvbuf, r.n + 1, Len(rcvbuf))
        /\ pendingErr' = IF r.kind = "Err" /\ r.err # "WouldBlock" THEN "None" ELSE pendingErr
        /\ LET d == Classify(r) IN
            IF d.op = "continue"
            THEN /\ pc' = "reading"
                 /\ UNCHANGED <<result, closedSeen, received>>
            ELSE /\ pc' = "done"
                 /\ result' = d.res
                 /\ closedSeen' = (closedSeen \/ d.res.tag = "ConnectionClosed")
                 /\ received' = IF d.res.tag = "Ok"
                                THEN received \o SubSeq(buf', 1, Min(d.res.n, Len(buf')))
                                ELSE received
    /\ UNCHANGED <<nonblocking, peerOpen, sent, wire, finRcvd>>
    /\ UNCHANGED addrVars

\* ------------------------------------------------------------- the stream

\* The peer writes one byte.
PeerWrite(b) ==
    /\ peerOpen
    /\ Len(sent) < MaxBytes
    /\ sent' = Append(sent, b)
    /\ wire' = Append(wire, b)
    /\ UNCHANGED <<nonblocking, peerOpen, rcvbuf, finRcvd, pendingErr>>
    /\ UNCHANGED callVars
    /\ UNCHANGED addrVars

\* The network delivers the oldest byte in flight to the receive queue.
Deliver ==
    /\ wire # <<>>
    /\ rcvbuf' = Append(rcvbuf, Head(wire))
    /\ wire' = Tail(wire)
    /\ UNCHANGED <<nonblocking, peerOpen, sent, finRcvd, pendingErr>>
    /\ UNCHANGED callVars
    /\ UNCHANGED addrVars

\* The peer closes its sending side (orderly shutdown).
PeerClose ==
    /\ peerOpen
    /\ peerOpen' = FALSE
    /\ UNCHANGED <<nonblocking, sent, wire, rcvbuf, finRcvd, pendingErr>>
    /\ UNCHANGED callVars
    /\ UNCHANGED addrVars

\* The peer's close arrives, after every byte it wrote.
DeliverFin ==
    /\ ~peerOpen
    /\ wire = <<>>
    /\ ~finRcvd
    /\ finRcvd' = TRUE
    /\ UNCHANGED <<nonblocking, peerOpen, sent, wire, rcvbuf, pendingErr>>
    /\ UNCHANGED callVars
    /\ UNCHANGED addrVars

\* A transport fault or an interruption makes the next read fail with kind k.
Fault(k) ==
    /\ pendingErr = "None"
    /\ pendingErr' = k
    /\ UNCHANGED <<nonblocking, peerOpen, sent, wire, rcvbuf, finRcvd>>
    /\ UNCHANGED callVars
    /\ UNCHANGED addrVars

\* ---------------------------------------------------------- specification

Init ==
    /\ nonblocking \in BOOLEAN
    /\ peerOpen = TRUE
    /\ sent = <<>>
    /\ wire = <<>>
    /\ rcvbuf = <<>>
    /\ finRcvd = FALSE
    /\ pendingErr = "None"
    /\ pc = "idle"
    /\ buf = <<>>
    /\ attempts = 0
    /\ wouldBlocks = 0
    /\ lastRead = NoRead
    /\ result = Pending
    /\ closedSeen = FALSE
    /\ received = <<>>
    /\ addr = DefaultAddress
    /\ fmtOut = <<>>
    /\ resolveOut = <<>>

Next ==
    \/ \E cap \in 0..MaxCap : Call(cap)
    \/ ReadStep
    \/ \E b \in Bytes : PeerWrite(b)
    \/ Deliver
    \/ PeerClose
    \/ DeliverFin
    \/ \E k \in FatalKinds : Fault(k)

Spec == Init /\ [][Next]_vars

\* The calling thread keeps running its loop and the network keeps delivering
\* what is in flight.
FairSpec == Spec /\ WF_vars(ReadStep) /\ WF_vars(Deliver) /\ WF_vars(DeliverFin)

\* An Address of either IP version, formatted and resolved by its caller
\* before any connection is used.
AddrInit ==
    /\ addr \in Addresses
    /\ fmtOut = <<>>
    /\ resolveOut = <<>>
    /\ nonblocking = FALSE
    /\ peerOpen = TRUE
    /\ sent = <<>>
    /\ wire = <<>>
    /\ rcvbuf = <<>>
    /\ finRcvd = FALSE
    /\ pendingErr = "None"
    /\ pc = "idle"
    /\ buf = <<>>
    /\ attempts = 0
    /\ wouldBlocks = 0
    /\ lastRead = NoRead
    /\ result = Pending
    /\ closedSeen = FALSE
    /\ received = <<>>

AddrNext ==
    \/ Fmt
    \/ Resolve

AddrSpec == AddrInit /\ [][AddrNext]_vars

\* ------------------------------------------------------------- properties

\* C1: read_stream never returns a failure that carries the would-block
\* condition: a returned IoError(e) has a kind other than WouldBlock, and the
\* only other failure returned is ConnectionClosed.
C1_WouldBlockNeverSurfaced ==
    pc = "done" =>
        /\ result.tag \in {"Ok", "ConnectionClosed", "IoError"}
        /\ result.tag = "IoError" => result.err \in FatalKinds
        /\ result.tag # "IoError" => result.err = "None"

\* A call that met would-block answers and then returned an IoError.
C1_Witness ==
    /\ pc = "done"
    /\ result.tag = "IoError"
    /\ wouldBlocks >= 1

\* C2: a successful call returns a count n with 1 <= n <= buf.len(), the count
\* reported by the one read of the call that succeeded with a positive count;
\* success with a count of 0 is never returned.
C2_PositiveCountWithinBuffer ==
    (pc = "done" /\ result.tag = "Ok") =>
        /\ result.n >= 1
        /\ result.n <= Len(buf)
        /\ lastRead = ReadOk(result.n)
        /\ attempts = wouldBlocks + 1

\* A call that returned fewer bytes than its buffer holds, after a retry.
C2_Witness ==
    /\ pc = "done"
    /\ result = Ok(1)
    /\ Len(buf) = 2
    /\ wouldBlocks >= 1

\* C3: a read that fails with a condition other than would-block ends the
\* call at once: it returns IoError carrying that error and reads no more.
C3_FatalErrorReturnedAtOnce ==
    (lastRead.kind = "Err" /\ lastRead.err # "WouldBlock") =>
        /\ pc = "done"
        /\ result = IoError(lastRead.err)
        /\ attempts = wouldBlocks + 1

\* A call that returned the Interrupted error of its third read.
C3_Witness ==
    /\ pc = "done"
    /\ lastRead = ReadErr("Interrupted")
    /\ result = IoError("Interrupted")
    /\ attempts = 3

\* C4: a read that succeeds with a count of zero ends the call at once with
\* ConnectionClosed (not IoError, not success) and no further read.
C4_ZeroBytesIsConnectionClosed ==
    lastRead = ReadOk(0) =>
        /\ pc = "done"
        /\ result = ConnectionClosed
        /\ attempts = wouldBlocks + 1

\* A call on a non-empty buffer that read zero bytes at end of input.
C4_Witness ==
    /\ pc = "done"
    /\ lastRead = ReadOk(0)
    /\ result = ConnectionClosed
    /\ Len(buf) >= 1
    /\ finRcvd

\* C5: on a non-blocking socket a call does not return while every read of
\* the call has answered would-block: it returns only on a read that found
\* data in the receive queue, end of input, or an error other than would-block.
C5_NoReturnWhileWouldBlock ==
    nonblocking =>
        /\ attempts = wouldBlocks => pc # "done"
        /\ (pc = "reading" /\ attempts > 0) => lastRead = ReadErr("WouldBlock")
        /\ pc = "done" =>
            \/ lastRead.kind = "Ok" /\ lastRead.n >= 1
            \/ lastRead = ReadOk(0) /\ (finRcvd \/ rcvbuf # <<>>)
            \/ lastRead.kind = "Err" /\ lastRead.err \in FatalKinds

\* A call still inside its loop after the platform answered would-block as
\* often as the model lets it, peer open and nothing to read.
C5_Witness ==
    /\ nonblocking
    /\ pc = "reading"
    /\ wouldBlocks = MaxWouldBlock
    /\ attempts = MaxWouldBlock
    /\ peerOpen
    /\ rcvbuf = <<>>
    /\ Len(buf) >= 1

\* C6: when the platform answers would-block N times and then r, the call
\* makes exactly N+1 reads and returns what r alone decides: Ok(n) for n > 0
\* bytes, ConnectionClosed for zero bytes, IoError(k) for a failure of kind k;
\* nothing of the N would-block answers is in the result.
C6_RetriesLeaveNoTrace ==
    /\ pc = "reading" => attempts = wouldBlocks
    /\ pc = "done" =>
        /\ attempts = wouldBlocks + 1
        /\ lastRead.kind = "Ok" /\ lastRead.n > 0 => result = Ok(lastRead.n)
        /\ lastRead.kind = "Ok" /\ lastRead.n = 0 => result = ConnectionClosed
        /\ lastRead.kind = "Err" => result = IoError(lastRead.err)
        /\ lastRead.kind \in {"Ok", "Err"}
        /\ lastRead.err # "WouldBlock"

\* A call that returned data on the read after the last would-block answer
\* the model allows.
C6_Witness ==
    /\ pc = "done"
    /\ wouldBlocks = MaxWouldBlock
    /\ attempts = MaxWouldBlock + 1
    /\ result.tag = "Ok"

\* C7: while the peer is open and bytes it wrote are unread, a call with a
\* non-empty buffer returns; when it returns with bytes in the receive queue
\* and no error pending it returns success with the number of bytes available
\* (as many as the buffer holds, if fewer), and it never returns
\* ConnectionClosed or a count of 0.
C7_DataIsReturned ==
    /\ [][(/\ pc = "reading" /\ pc' = "done"
           /\ peerOpen /\ Len(buf) >= 1
           /\ (rcvbuf # <<>> \/ wire # <<>>))
          => /\ result'.tag # "ConnectionClosed"
             /\ result'.tag = "Ok" => result'.n >= 1
             /\ (rcvbuf # <<>> /\ pendingErr = "None")
                  => result' = Ok(Min(Len(buf), Len(rcvbuf)))
             /\ (rcvbuf # <<>> /\ pendingErr = "None" /\ Len(sent) <= Len(buf))
                  => result' = Ok(Len(rcvbuf))]_vars
    /\ (pc = "reading" /\ peerOpen /\ Len(buf) >= 1 /\ (rcvbuf # <<>> \/ wire # <<>>))
          ~> (pc = "done")

\* A call that returned, after retrying, the one byte that had arrived of the
\* two the peer wrote, the peer still open.
C7_Witness ==
    /\ pc = "done"
    /\ peerOpen
    /\ Len(sent) = 2
    /\ Len(buf) = 2
    /\ result = Ok(1)
    /\ wouldBlocks >= 1
    /\ wire # <<>>

\* C8: once the peer has closed and nothing it wrote is unread, a call
\* returns; the read made at end of input ends the call, with
\* ConnectionClosed unless an error is pending.
C8_OrderlyCloseReturnsClosed ==
    /\ [][(/\ pc = "reading" /\ attempts' # attempts
           /\ finRcvd /\ rcvbuf = <<>>)
          => /\ pc' = "done"
             /\ pendingErr = "None" => result' = ConnectionClosed]_vars
    /\ (pc = "reading" /\ ~peerOpen /\ wire = <<>> /\ rcvbuf = <<>>) ~> (pc = "done")

\* A call on a non-empty buffer that spun while the peer's close was in flight
\* and returned ConnectionClosed once it had arrived, all data read before.
C8_Witness ==
    /\ pc = "done"
    /\ result = ConnectionClosed
    /\ finRcvd
    /\ Len(buf) >= 1
    /\ wouldBlocks >= 1
    /\ Len(received) = Len(sent)
    /\ Len(sent) >= 1

\* C9: read_stream returns ConnectionClosed only at end of input (the peer has
\* closed and no unread data remains), whatever the capacity of the buffer.
C9_ClosedOnlyAtEndOfInput ==
    (pc = "done" /\ result = ConnectionClosed) =>
        /\ ~peerOpen
        /\ finRcvd
        /\ rcvbuf = <<>>

\* C10: once a call has returned ConnectionClosed, no later call on the same
\* stream returns success.
C10_ClosedIsTerminal ==
    (closedSeen /\ pc = "done") => result.tag # "Ok"

\* C11: formatting an Address yields the IP's text, one ':' and the port in
\* decimal, with no brackets for IPv4 and IPv6 alike; 192.0.2.1 with port
\* 7828 gives exactly "192.0.2.1:7828" (and ::1 with port 80 gives "::1:80").
C11_FormatIsIpColonPort ==
    \A i \in 1..Len(fmtOut) :
        LET text == fmtOut[i] IN
        /\ text = IpText(addr.ip) \o <<":">> \o Decimal(addr.port)
        /\ \A j \in 1..Len(text) : text[j] \notin {"[", "]"}
        /\ addr = Address(V4(192, 0, 2, 1), 7828) =>
             text = <<"1", "9", "2", ".", "0", ".", "2", ".", "1", ":", "7", "8", "2", "8">>
        /\ addr = Address(V6(<<0, 0, 0, 0, 0, 0, 0, 1>>), 80) =>
             text = <<":", ":", "1", ":", "8", "0">>

\* The Address 192.0.2.1 with port 7828 has been formatted.
C11_Witness ==
    /\ addr = Address(V4(192, 0, 2, 1), 7828)
    /\ fmtOut # <<>>

\* C12: resolving an Address of either IP version yields exactly one socket
\* address, whose IP and port are the Address's ip and port.
C12_ResolveYieldsTheAddress ==
    \A i \in 1..Len(resolveOut) :
        /\ Len(resolveOut[i]) = 1
        /\ resolveOut[i][1].ip = addr.ip
        /\ resolveOut[i][1].port = addr.port

\* An IPv6 Address with a port other than the default has been resolved.
C12_Witness ==
    /\ addr.ip.v = "V6"
    /\ addr.port = 65535
    /\ resolveOut # <<>>

C14_OneConsumingRead ==
    /\ [](pc = "done" =>
            /\ attempts = wouldBlocks + 1
            /\ lastRead # ReadErr("WouldBlock"))
    /\ [][(pc = "reading" /\ attempts' # attempts) =>
            IF pc' = "done" /\ result'.tag = "Ok"
            THEN /\ Len(rcvbuf) - Len(rcvbuf') = result'.n
                 /\ rcvbuf = SubSeq(buf', 1, result'.n) \o rcvbuf'
            ELSE rcvbuf' = rcvbuf]_vars

\* A call that returned one of two queued bytes, the other left in the queue.
C14_Witness ==
    /\ pc = "done"
    /\ result = Ok(1)
    /\ Len(buf) = 1
    /\ Len(rcvbuf) = 1
    /\ Len(sent) = 2

\* C15: the buffer prefixes returned by successful calls, concatenated, are
\* a prefix of what the peer wrote, and with the unread bytes they are exactly
\* what the peer wrote (none lost, duplicated or reordered); a call with a
\* non-empty buffer returns ConnectionClosed only after every byte written
\* has been returned by successful calls.
C15_BytesReturnedInOrder ==
    /\ Len(received) <= Len(sent)
    /\ received = SubSeq(sent, 1, Len(received))
    /\ sent = received \o rcvbuf \o wire
    /\ (pc = "done" /\ result = ConnectionClosed /\ Len(buf) >= 1) =>
        /\ ~peerOpen
        /\ received = sent

\* Two different bytes written, the peer closed, both returned by successful
\* calls and the next call, on a non-empty buffer, returned ConnectionClosed.
C15_Witness ==
    /\ pc = "done"
    /\ result = ConnectionClosed
    /\ Len(buf) >= 1
    /\ received = <<1, 2>>
    /\ sent = <<1, 2>>

\* C16: a read that answers would-block changes neither the caller's buffer
\* nor the stream's unread data nor anything a call returns, and the outcome
\* of a call is decided by the answer of its last read alone, whatever
\* earlier calls on the stream returned.
C16_RetryChangesNothing ==
    /\ [][(pc = "reading" /\ attempts' # attempts /\ lastRead' = ReadErr("WouldBlock")) =>
            /\ pc' = "reading"
            /\ buf' = buf
            /\ rcvbuf' = rcvbuf
            /\ wire' = wire
            /\ pendingErr' = pendingErr
            /\ result' = result
            /\ received' = received
            /\ closedSeen' = closedSeen]_vars
    /\ [](pc = "done" =>
            result = IF lastRead.kind = "Ok"
                     THEN IF lastRead.n > 0 THEN Ok(lastRead.n) ELSE ConnectionClosed
                     ELSE IoError(lastRead.err))

\* A call that retried and returned data on a stream on which an earlier call
\* had returned ConnectionClosed.
C16_Witness ==
    /\ closedSeen
    /\ pc = "done"
    /\ result.tag = "Ok"
    /\ wouldBlocks >= 1

====
